---- MODULE Spec2Model ----
(***************************************************************************)
(* Round generation, per-day persistence and winner recording of the Zorb  *)
(* backend.  The repository holds several generations of the same server;  *)
(* five of them are modelled, under these specifications:                  *)
(*   SpecA   src/server.js lines 1-507    rounds / entrants / winners      *)
(*           tables, replace by delete-then-insert                         *)
(*   SpecB   src/server.js lines 509-935  one rounds row with the players  *)
(*           embedded, replaced by a single upsert                         *)
(*   SpecP0  src/unnamed/part_000         first server, no fallback        *)
(*   SpecAGen  the generation and read endpoints of SpecA's server alone   *)
(*   SpecBGen  one call of SpecB's generateRound on feeds with more        *)
(*           comments                                                      *)
(*   SpecP3  src/unnamed/part_003 lines 493-878, one call of generateRound *)
(*   SpecBDay  the calls of SpecB's server that can generate a round       *)
(*   SpecFeed  generateRound of SpecB's server and of src/unnamed/part_001 *)
(*           with a step for each feed request; FairSpecFeed adds that a   *)
(*           handler that can run does run                                 *)
(*   SpecQual, SpecFilter, SpecBoard, SpecShuffle  the keyword test, the   *)
(*           filter and selector, the leaderboard and the shuffle, applied *)
(*           once to an input                                              *)
(*   SpecAWin  generation, winner and leaderboard routes of SpecA's server *)
(*   SpecBWin  generation and winner routes of SpecB's server on a store   *)
(*           that holds the round of the day before                        *)
(* A request handler is a process and each of its store calls is a step,   *)
(* so handlers interleave at their awaits on the store.  What a handler    *)
(* does before its first store call (reading its request, calling the      *)
(* feed) reads nothing shared and is part of the step of that call.        *)
(***************************************************************************)
EXTENDS Integers, Sequences, FiniteSets, TLC

VARIABLES rounds,    \* table rounds (part_000: zorbblez_rounds): a set of rows
          entrants,  \* table entrants (SpecA only)
          winners,   \* table winners (SpecA only)
          pc,        \* pc[p]: the await a handler is suspended at
          loc,       \* loc[p]: the handler's local variables and its response
          calls,     \* generation calls started so far (Date.now() of the seed)
          before     \* history: the store as a call running alone found it

vars == <<rounds, entrants, winners, pc, loc, calls, before>>

---------------------------------------------------------------------------
(* Bounds of the model *)
NumProcs == 2
MaxComments == 2
MaxCalls == 2
MaxSlotInput == 3

(* Configuration (environment variables), set small *)
PLAYER_COUNT_MAX == 3
DEFAULT_TRAINING_COUNT == 2
PLAYER_COUNT == 2

(* Program constants *)
MIN_PLAYERS == 2
MAX_FINALISTS == 100
MAX_TRAINING == 50

Procs == 1..NumProcs
Today == "d1"

(* Nullable values: None is null/undefined, Some(x) a present value *)
None == <<>>
Some(x) == <<x>>
Val(o) == o[1]

---------------------------------------------------------------------------
(* Strings are sequences of characters *)
LowerChar(c) ==
  CASE c = "A" -> "a" [] c = "B" -> "b" [] c = "I" -> "i" [] c = "N" -> "n"
    [] OTHER -> c

toLowerCase(s) == [i \in 1..Len(s) |-> LowerChar(s[i])]

RECURSIVE trimStart(_)
trimStart(s) == IF s # <<>> /\ Head(s) = " " THEN trimStart(Tail(s)) ELSE s

RECURSIVE trimEnd(_)
trimEnd(s) ==
  IF s # <<>> /\ s[Len(s)] = " " THEN trimEnd(SubSeq(s, 1, Len(s) - 1)) ELSE s

trim(s) == trimEnd(trimStart(s))

includes(s, k) ==
  \E i \in 0..(Len(s) - Len(k)) : SubSeq(s, i + 1, i + Len(k)) = k

(* x || "" for a nullable string *)
OrEmpty(o) == IF o = None THEN <<>> ELSE Val(o)

Min(a, b) == IF a < b THEN a ELSE b
Max(a, b) == IF a > b THEN a ELSE b

clamp(n, lo, hi) == Max(lo, Min(hi, n))

(* a clampInt that forgets the upper limit *)
clampIntNoMax(n, min, max) ==
  IF n = None THEN min ELSE Max(min, Val(n))

(* clampInt takes any value: None stands for one Number() does not make finite *)
clampInt(n, min, max) ==
  IF n = None THEN min ELSE Max(min, Min(max, Val(n)))

Swap(a, i, j) == [a EXCEPT ![i] = a[j], ![j] = a[i]]

(* a loop that never leaves an element in its place: j drawn below i *)
RECURSIVE FisherYatesBelow(_, _)
FisherYatesBelow(a, i) ==
  IF i <= 1 THEN {a}
  ELSE UNION { FisherYatesBelow(Swap(a, i, j), i - 1) : j \in 1..(i - 1) }

(* Fisher-Yates: every run of the loop, j drawn from 0..i *)
RECURSIVE FisherYates(_, _)
FisherYates(a, i) ==
  IF i <= 1 THEN {a}
  ELSE UNION { FisherYates(Swap(a, i, j), i - 1) : j \in 1..i }

(* a shuffle that the recorded seed would fix: one result for one run *)
shuffleFixed(arr) == {arr}

shuffle(arr) == FisherYates(arr, Len(arr))

---------------------------------------------------------------------------
(* The feed: the comments a post can carry *)
CommentPool ==
  { [id |-> "c1", username |-> Some(<<"a">>),      text |-> <<"I", "N">>],
    [id |-> "c3", username |-> Some(<<"b">>),      text |-> <<"I", "N">>],
    [id |-> "c4", username |-> Some(<<"c">>),      text |-> <<"n", "o">>] }

RECURSIVE SeqsUpTo(_, _)
SeqsUpTo(S, n) ==
  IF n = 0 THEN {<<>>}
  ELSE LET shorter == SeqsUpTo(S, n - 1)
       IN  shorter \cup { Append(s, x) : s \in { t \in shorter : Len(t) = n - 1 },
                                          x \in S }

Range(s) == { s[i] : i \in DOMAIN s }

CommentSeqs ==
  { s \in SeqsUpTo(CommentPool, MaxComments) : Cardinality(Range(s)) = Len(s) }

ThePost == [id |-> "m1", permalink |-> "p1"]

(* What the feed answers to one generation: the latest-media request fails,  *)
(* finds no post or finds ThePost; the comment pages fail or give comments.  *)
FeedOutcomes ==
  { [media |-> "error", comments |-> None],
    [media |-> "none",  comments |-> None],
    [media |-> "post",  comments |-> None] }
  \cup { [media |-> "post", comments |-> Some(cs)] : cs \in CommentSeqs }

(* "error": a feed request failed; "none": no post; "ok": post and comments *)
FeedResult(feed) ==
  IF feed.media = "error" \/ (feed.media = "post" /\ feed.comments = None)
  THEN "error"
  ELSE IF feed.media = "none" THEN "none" ELSE "ok"

---------------------------------------------------------------------------
(* Rows of one round_date / round_id *)
RoundsOf(d) == { r \in rounds : r.round_date = d }
EntrantsOf(rid) == { e \in entrants : e.round_id = rid }

Idle == [op |-> "idle"]

Store == [rounds |-> rounds, entrants |-> entrants, winners |-> winners]

(* History kept for a call that starts while no other call is in flight: the *)
(* store as it found it.  None once calls overlap.                           *)
Found(p) ==
  IF \A q \in Procs \ {p} : pc[q] = "idle" THEN Some(Store) ELSE None

Init ==
  /\ rounds = {}
  /\ entrants = {}
  /\ winners = {}
  /\ pc = [p \in Procs |-> "idle"]
  /\ loc = [p \in Procs |-> Idle]
  /\ calls = 0
  /\ before = None

(* The handler has answered: the process takes the next request *)
Return(p) ==
  /\ pc[p] \in {"done", "failed"}
  /\ pc' = [pc EXCEPT ![p] = "idle"]
  /\ loc' = [loc EXCEPT ![p] = Idle]
  /\ before' = None
  /\ UNCHANGED <<rounds, entrants, winners, calls>>

---------------------------------------------------------------------------
(* ======================= SpecA: src/server.js 1-507 ==================== *)
REQUIRE_KEYWORD == <<"i", "n">>

qualifies(text) ==
  IF REQUIRE_KEYWORD = <<>> THEN TRUE
  ELSE includes(toLowerCase(text), REQUIRE_KEYWORD)

(* filter by keyword, de-dupe by lower-cased username *)
RECURSIVE ADedupe(_, _, _)
ADedupe(cs, seen, out) ==
  IF cs = <<>> THEN out
  ELSE LET c == Head(cs)
           u == toLowerCase(OrEmpty(c.username))
       IN  IF u = <<>> \/ u \in seen
           THEN ADedupe(Tail(cs), seen, out)
           ELSE ADedupe(Tail(cs), seen \cup {u}, Append(out, [username |-> c.username]))

AUniqueEntrants(comments) ==
  ADedupe(SelectSeq(comments, LAMBDA c : qualifies(c.text)), {}, <<>>)

(* the try / catch around the feed calls *)
AIngest(feed) ==
  IF feed.media = "post" /\ feed.comments # None
  THEN [post |-> Some(ThePost), uniqueEntrants |-> AUniqueEntrants(Val(feed.comments))]
  ELSE [post |-> None, uniqueEntrants |-> <<>>]

AHasEntrants(uniq) == Len(uniq) >= 2

AFinaleCount(uniq) ==
  IF AHasEntrants(uniq) THEN clamp(Len(uniq), 2, MAX_FINALISTS)
  ELSE clamp(DEFAULT_TRAINING_COUNT, 2, MAX_TRAINING)

AClaimedTotal(uniq) ==
  IF AHasEntrants(uniq) THEN Len(uniq) ELSE AFinaleCount(uniq)

AMode(uniq) == IF AHasEntrants(uniq) THEN "entrants" ELSE "training"

(* the locals of createOrReplaceTodaysRound when it reaches the store *)
ALocals(seed, feed) ==
  LET ing == AIngest(feed)
      uniq == ing.uniqueEntrants
  IN  [op |-> "generate", seed |-> seed, post |-> ing.post,
       feed |-> FeedResult(feed), uniqueEntrants |-> uniq,
       finaleCount |-> AFinaleCount(uniq),
       claimedTotal |-> AClaimedTotal(uniq),
       mode |-> AMode(uniq)]

(* rounds.upsert(row, onConflict round_date): the columns given are written, *)
(* the others (id, winner_entrant_id) stay as they are on a conflict         *)
AUpsertedRow(old, l) ==
  [id |-> IF old = {} THEN 1 ELSE (CHOOSE r \in old : TRUE).id,
   round_date |-> Today, mode |-> l.mode, status |-> "pending",
   claimed_total |-> l.claimedTotal, finale_count |-> l.finaleCount,
   seed |-> l.seed,
   winner_entrant_id |->
     IF old = {} THEN None ELSE (CHOOSE r \in old : TRUE).winner_entrant_id]

(* .select("id, round_date, mode, status, claimed_total, finale_count, seed") *)
ASelected(row) ==
  [id |-> row.id, round_date |-> row.round_date, mode |-> row.mode,
   status |-> row.status, claimed_total |-> row.claimed_total,
   finale_count |-> row.finale_count, seed |-> row.seed]

(* a store call that comes back with an error: the handler throws *)
StoreFails(p, at) ==
  /\ pc[p] = at
  /\ pc' = [pc EXCEPT ![p] = "failed"]
  /\ loc' = [loc EXCEPT ![p] = [op |-> loc[p].op, failedAt |-> at, status |-> 500]]
  /\ UNCHANGED <<rounds, entrants, winners, calls, before>>

(* ... the first store call of a handler *)
FirstCallFails(p, op, status) ==
  /\ pc[p] = "idle"
  /\ pc' = [pc EXCEPT ![p] = "failed"]
  /\ loc' = [loc EXCEPT ![p] = [op |-> op, failedAt |-> "idle", status |-> status]]
  /\ before' = Found(p)
  /\ UNCHANGED <<rounds, entrants, winners, calls>>

(* POST /admin/generate: createOrReplaceTodaysRound to its upsert of the row *)
AGenerate(p) ==
  /\ pc[p] = "idle"
  /\ calls < MaxCalls
  /\ \E feed \in FeedOutcomes :
       LET l == ALocals(calls + 1, feed)
           row == AUpsertedRow(RoundsOf(Today), l)
       IN  /\ rounds' = (rounds \ RoundsOf(Today)) \cup {row}
           /\ loc' = [loc EXCEPT ![p] = l @@ [round |-> ASelected(row)]]
  /\ pc' = [pc EXCEPT ![p] = "a_delete"]
  /\ calls' = calls + 1
  /\ before' = Found(p)
  /\ UNCHANGED <<entrants, winners>>

AGenerateFails(p) == FirstCallFails(p, "generate", 500)

(* a delete that filters on entrant_number where the code filters on round_id *)
ADeletedByNumber(rid) == { e \in entrants : e.entrant_number = rid }

(* entrants.delete().eq("round_id", round.id) *)
ADeleted(rid) == { e \in entrants : e.round_id = rid }

ADeleteEntrants(p) ==
  /\ pc[p] = "a_delete"
  /\ entrants' = entrants \ ADeleted(loc[p].round.id)
  /\ pc' = [pc EXCEPT ![p] = "a_insert"]
  /\ UNCHANGED <<rounds, winners, loc, calls, before>>

ADeleteEntrantsFails(p) == StoreFails(p, "a_delete")

(* the rows of one insert; the store numbers them, here by call and position *)
AEntrantRows(l, picked) ==
  IF l.mode = "entrants"
  THEN { [id |-> <<l.seed, i>>, round_id |-> l.round.id, entrant_number |-> i,
          username |-> picked[i].username, source |-> "comment"] :
         i \in 1..Len(picked) }
  ELSE { [id |-> <<l.seed, i>>, round_id |-> l.round.id, entrant_number |-> i,
          username |-> None, source |-> "training"] : i \in 1..l.finaleCount }

AResult(l) ==
  [round_date |-> l.round.round_date, mode |-> l.round.mode,
   status |-> l.round.status, claimed_total |-> l.round.claimed_total,
   finale_count |-> l.round.finale_count, seed |-> l.round.seed, post |-> l.post]

AInsertEntrants(p) ==
  /\ pc[p] = "a_insert"
  /\ \E sh \in shuffle(loc[p].uniqueEntrants) :
       LET picked == SubSeq(sh, 1, Min(Len(sh), loc[p].finaleCount))
           rows == AEntrantRows(loc[p], picked)
       IN  /\ entrants' = entrants \cup rows
           /\ loc' = [loc EXCEPT ![p] =
                        [op |-> "generate", status |-> 200, feed |-> loc[p].feed,
                         body |-> AResult(loc[p])]]
  /\ pc' = [pc EXCEPT ![p] = "done"]
  /\ UNCHANGED <<rounds, winners, calls, before>>

AInsertEntrantsFails(p) == StoreFails(p, "a_insert")

(* GET /top50.json: the round row, then its entrants *)
AReadRound(p) ==
  /\ pc[p] = "idle"
  /\ Cardinality(RoundsOf(Today)) = 1
  /\ loc' = [loc EXCEPT ![p] =
               [op |-> "read", round |-> CHOOSE r \in RoundsOf(Today) : TRUE]]
  /\ pc' = [pc EXCEPT ![p] = "a_entrants"]
  /\ before' = Found(p)
  /\ UNCHANGED <<rounds, entrants, winners, calls>>

(* .single() finds no row, or the store fails: 404 *)
AReadRoundFails(p) == FirstCallFails(p, "read", 404)

AReadEntrants(p) ==
  /\ pc[p] = "a_entrants"
  /\ loc' = [loc EXCEPT ![p] =
               [op |-> "read", status |-> 200,
                body |-> [round_date |-> loc[p].round.round_date,
                          mode |-> loc[p].round.mode,
                          status |-> loc[p].round.status,
                          claimed_total |-> loc[p].round.claimed_total,
                          finale_count |-> loc[p].round.finale_count,
                          seed |-> loc[p].round.seed,
                          entrants |-> EntrantsOf(loc[p].round.id)]]]
  /\ pc' = [pc EXCEPT ![p] = "done"]
  /\ UNCHANGED <<rounds, entrants, winners, calls, before>>

AReadEntrantsFails(p) == StoreFails(p, "a_entrants")

(* POST /round/today/winner *)
SlotInputs == { Some(n) : n \in 0..MaxSlotInput } \cup {None}

(* !winnerSlot || typeof winnerSlot !== "number" *)
ABadSlot(winnerSlot) == winnerSlot = None \/ winnerSlot = Some(0)

AWinnerRejects(p) ==
  /\ pc[p] = "idle"
  /\ \E winnerSlot \in SlotInputs :
       /\ ABadSlot(winnerSlot)
       /\ loc' = [loc EXCEPT ![p] =
                    [op |-> "winner", status |-> 400, winnerSlot |-> winnerSlot]]
  /\ pc' = [pc EXCEPT ![p] = "failed"]
  /\ before' = Found(p)
  /\ UNCHANGED <<rounds, entrants, winners, calls>>

WinnerFails(p, at) ==
  /\ pc[p] = at
  /\ pc' = [pc EXCEPT ![p] = "failed"]
  /\ loc' = [loc EXCEPT ![p] =
               [op |-> "winner", status |-> 500, failedAt |-> at,
                winnerSlot |-> loc[p].winnerSlot]]
  /\ UNCHANGED <<rounds, entrants, winners, calls, before>>

(* the slot is a number: the handler reads the round row *)
AWinnerRound(p) ==
  /\ pc[p] = "idle"
  /\ Cardinality(RoundsOf(Today)) = 1
  /\ \E winnerSlot \in SlotInputs :
       /\ ~ABadSlot(winnerSlot)
       /\ loc' = [loc EXCEPT ![p] =
                    [op |-> "winner", winnerSlot |-> winnerSlot,
                     round |-> [id |-> (CHOOSE r \in RoundsOf(Today) : TRUE).id,
                                round_date |-> Today]]]
  /\ pc' = [pc EXCEPT ![p] = "w_entrant"]
  /\ before' = Found(p)
  /\ UNCHANGED <<rounds, entrants, winners, calls>>

AWinnerRoundFails(p) ==
  /\ pc[p] = "idle"
  /\ \E winnerSlot \in SlotInputs :
       /\ ~ABadSlot(winnerSlot)
       /\ loc' = [loc EXCEPT ![p] =
                    [op |-> "winner", status |-> 500, failedAt |-> "idle",
                     winnerSlot |-> winnerSlot]]
  /\ pc' = [pc EXCEPT ![p] = "failed"]
  /\ before' = Found(p)
  /\ UNCHANGED <<rounds, entrants, winners, calls>>

AMatching(l) ==
  { e \in EntrantsOf(l.round.id) : e.entrant_number = Val(l.winnerSlot) }

AWinnerEntrant(p) ==
  /\ pc[p] = "w_entrant"
  /\ Cardinality(AMatching(loc[p])) = 1
  /\ loc' = [loc EXCEPT ![p] =
               loc[p] @@ [winnerEntrant |->
                            LET e == CHOOSE x \in AMatching(loc[p]) : TRUE
                            IN  [id |-> e.id, username |-> e.username,
                                 entrant_number |-> e.entrant_number]]]
  /\ pc' = [pc EXCEPT ![p] = "w_update"]
  /\ UNCHANGED <<rounds, entrants, winners, calls, before>>

AWinnerEntrantFails(p) == WinnerFails(p, "w_entrant")

AWinnerUpdate(p) ==
  /\ pc[p] = "w_update"
  /\ rounds' = { IF r.id = loc[p].round.id
                 THEN [r EXCEPT !.winner_entrant_id = Some(loc[p].winnerEntrant.id),
                                !.status = "rendered"]
                 ELSE r : r \in rounds }
  /\ pc' = [pc EXCEPT ![p] = "w_history"]
  /\ UNCHANGED <<entrants, winners, loc, calls, before>>

AWinnerUpdateFails(p) == WinnerFails(p, "w_update")

AWinnerHistory(p) ==
  /\ pc[p] = "w_history"
  /\ winners' = { w \in winners : w.round_id # loc[p].round.id } \cup
                { [round_id |-> loc[p].round.id,
                   entrant_id |-> loc[p].winnerEntrant.id,
                   round_date |-> Today,
                   username |-> loc[p].winnerEntrant.username] }
  /\ loc' = [loc EXCEPT ![p] =
               [op |-> "winner", status |-> 200, winnerSlot |-> loc[p].winnerSlot]]
  /\ pc' = [pc EXCEPT ![p] = "done"]
  /\ UNCHANGED <<rounds, entrants, calls, before>>

AWinnerHistoryFails(p) == WinnerFails(p, "w_history")

NextA ==
  \E p \in Procs :
    \/ AGenerate(p)
    \/ AGenerateFails(p)
    \/ ADeleteEntrants(p)
    \/ ADeleteEntrantsFails(p)
    \/ AInsertEntrants(p)
    \/ AInsertEntrantsFails(p)
    \/ AReadRound(p)
    \/ AReadRoundFails(p)
    \/ AReadEntrants(p)
    \/ AReadEntrantsFails(p)
    \/ AWinnerRejects(p)
    \/ AWinnerRound(p)
    \/ AWinnerRoundFails(p)
    \/ AWinnerEntrant(p)
    \/ AWinnerEntrantFails(p)
    \/ AWinnerUpdate(p)
    \/ AWinnerUpdateFails(p)
    \/ AWinnerHistory(p)
    \/ AWinnerHistoryFails(p)
    \/ Return(p)

SpecA == Init /\ [][NextA]_vars

(* The generation and read endpoints of the same server, without the      *)
(* winner endpoint: POST /admin/generate and GET /top50.json.             *)
NextAGen ==
  \E p \in Procs :
    \/ AGenerate(p)
    \/ AGenerateFails(p)
    \/ ADeleteEntrants(p)
    \/ ADeleteEntrantsFails(p)
    \/ AInsertEntrants(p)
    \/ AInsertEntrantsFails(p)
    \/ AReadRound(p)
    \/ AReadRoundFails(p)
    \/ AReadEntrants(p)
    \/ AReadEntrantsFails(p)
    \/ Return(p)

SpecAGen == Init /\ [][NextAGen]_vars

---------------------------------------------------------------------------
(* ====================== SpecB: src/server.js 509-935 =================== *)
Digits == <<"0", "1", "2", "3", "4", "5", "6", "7", "8", "9">>

(* `${n}` of a non-negative integer *)
RECURSIVE Decimal(_)
Decimal(n) ==
  IF n < 10 THEN <<Digits[n + 1]>>
  ELSE Decimal(n \div 10) \o <<Digits[(n % 10) + 1]>>

safeStr(s, maxLen) == SubSeq(OrEmpty(s), 1, Min(Len(OrEmpty(s)), maxLen))

(* x || null for a string *)
OrNull(str) == IF str = <<>> THEN None ELSE Some(str)

buildTrainingPlayers(count) ==
  [i \in 1..count |->
     [slot |-> i, handle |-> <<"#">> \o Decimal(i), source |-> "training"]]

(* a de-dupe that marks a user name as seen before it looks at the text *)
RECURSIVE BUniqSeenFirst(_, _, _)
BUniqSeenFirst(cs, seen, uniq) ==
  IF cs = <<>> THEN uniq
  ELSE LET c == Head(cs)
           username == trim(OrEmpty(c.username))
           key == toLowerCase(username)
       IN  IF username = <<>> \/ key \in seen
           THEN BUniqSeenFirst(Tail(cs), seen, uniq)
           ELSE IF ~qualifies(c.text)
           THEN BUniqSeenFirst(Tail(cs), seen \cup {key}, uniq)
           ELSE BUniqSeenFirst(Tail(cs), seen \cup {key},
                      Append(uniq, [handle |-> username, source |-> "comment",
                                    comment_id |-> c.id, comment_text |-> c.text]))

(* a de-dupe that compares the user names as written *)
RECURSIVE BUniqByCase(_, _, _)
BUniqByCase(cs, seen, uniq) ==
  IF cs = <<>> THEN uniq
  ELSE LET c == Head(cs)
           username == trim(OrEmpty(c.username))
       IN  IF username = <<>> \/ username \in seen \/ ~qualifies(c.text)
           THEN BUniqByCase(Tail(cs), seen, uniq)
           ELSE BUniqByCase(Tail(cs), seen \cup {username},
                      Append(uniq, [handle |-> username, source |-> "comment",
                                    comment_id |-> c.id, comment_text |-> c.text]))

RECURSIVE BUniq(_, _, _)
BUniq(cs, seen, uniq) ==
  IF cs = <<>> THEN uniq
  ELSE LET c == Head(cs)
           username == trim(OrEmpty(c.username))
           key == toLowerCase(username)
       IN  IF username = <<>> \/ key \in seen \/ ~qualifies(c.text)
           THEN BUniq(Tail(cs), seen, uniq)
           ELSE BUniq(Tail(cs), seen \cup {key},
                      Append(uniq, [handle |-> username, source |-> "comment",
                                    comment_id |-> c.id, comment_text |-> c.text]))

(* a selector that numbers the whole shuffled list and never cuts it *)
buildLivePlayersUncut(comments, cap) ==
  { [i \in 1..Len(sh) |->
       [slot |-> i, handle |-> sh[i].handle, source |-> sh[i].source,
        comment_id |-> sh[i].comment_id,
        comment_text |-> sh[i].comment_text]] :
    sh \in shuffle(BUniq(comments, {}, <<>>)) }

(* every roster the shuffle can give *)
buildLivePlayersFromComments(comments, cap) ==
  { LET picked == SubSeq(sh, 1, Min(Len(sh), cap))
    IN  [i \in 1..Len(picked) |->
           [slot |-> i, handle |-> picked[i].handle, source |-> picked[i].source,
            comment_id |-> picked[i].comment_id,
            comment_text |-> picked[i].comment_text]] :
    sh \in shuffle(BUniq(comments, {}, <<>>)) }

(* requestedMaxPlayers: not given, or a value Number() makes finite or not *)
Undefined == [undefined |-> TRUE]

RequestedInputs ==
  {Undefined} \cup { [num |-> n] : n \in {None} \cup { Some(k) : k \in 1..(PLAYER_COUNT_MAX + 1) } }

(* a cap that does not look at the request *)
BCapOfConfig(requestedMaxPlayers) ==
  clampInt(Some(PLAYER_COUNT_MAX), MIN_PLAYERS, PLAYER_COUNT_MAX)

BCap(requestedMaxPlayers) ==
  clampInt(IF requestedMaxPlayers = Undefined THEN Some(PLAYER_COUNT_MAX)
           ELSE requestedMaxPlayers.num,
           MIN_PLAYERS, PLAYER_COUNT_MAX)

BRow(seed, mode, post, claimed_total, players) ==
  [round_date |-> Today, mode |-> mode, status |-> "pending",
   claimed_total |-> claimed_total,
   finale_count |-> clampInt(Some(Len(players)), MIN_PLAYERS, PLAYER_COUNT_MAX),
   seed |-> seed, post |-> post, players |-> players,
   winner |-> None, winner_slot |-> None, winner_set_at |-> None]

BTrainingRow(seed, post, cap) ==
  BRow(seed, "training", post, cap,
       buildTrainingPlayers(clampInt(Some(cap), MIN_PLAYERS, PLAYER_COUNT_MAX)))

(* a generateRound that goes live with any roster that is not empty *)
BRowsAnyRoster(seed, feed, requestedMaxPlayers) ==
  LET cap == BCap(requestedMaxPlayers)
  IN  IF feed.media # "post" THEN {BTrainingRow(seed, None, cap)}
      ELSE IF feed.comments = None THEN {BTrainingRow(seed, Some(ThePost), cap)}
      ELSE { IF Len(livePlayers) >= 1
             THEN BRow(seed, "live", Some(ThePost), Len(livePlayers),
                       SubSeq(livePlayers, 1,
                              Min(Len(livePlayers),
                                  clampInt(Some(Min(Len(livePlayers), cap)),
                                           MIN_PLAYERS, PLAYER_COUNT_MAX))))
             ELSE BTrainingRow(seed, Some(ThePost), cap) :
             livePlayers \in
               buildLivePlayersFromComments(Val(feed.comments), PLAYER_COUNT_MAX) }

(* the rows generateRound can build from one answer of the feed *)
BRows(seed, feed, requestedMaxPlayers) ==
  LET cap == BCap(requestedMaxPlayers)
  IN  IF feed.media # "post" THEN {BTrainingRow(seed, None, cap)}
      ELSE IF feed.comments = None THEN {BTrainingRow(seed, Some(ThePost), cap)}
      ELSE { IF Len(livePlayers) >= MIN_PLAYERS
             THEN BRow(seed, "live", Some(ThePost), Len(livePlayers),
                       SubSeq(livePlayers, 1,
                              Min(Len(livePlayers),
                                  clampInt(Some(Min(Len(livePlayers), cap)),
                                           MIN_PLAYERS, PLAYER_COUNT_MAX))))
             ELSE BTrainingRow(seed, Some(ThePost), cap) :
             livePlayers \in
               buildLivePlayersFromComments(Val(feed.comments), PLAYER_COUNT_MAX) }

(* an insert that takes no notice of the row the date already has *)
insertRound(row) == rounds \cup {row}

(* .upsert(row, { onConflict: "round_date" }): the row of that date, if    *)
(* there is one, is replaced                                               *)
upsertRound(row) == (rounds \ RoundsOf(row.round_date)) \cup {row}

(* generateRound: the row is built, then upsertRound replaces the row of  *)
(* its round_date by the row given                                        *)
BGenerateRound(p, op, requestedMaxPlayers) ==
  /\ \E feed \in FeedOutcomes :
       \E row \in BRows(calls + 1, feed, requestedMaxPlayers) :
         /\ rounds' = upsertRound(row)
         /\ loc' = [loc EXCEPT ![p] =
                      [op |-> op, status |-> 200, feed |-> FeedResult(feed),
                       body |-> row]]
  /\ pc' = [pc EXCEPT ![p] = "done"]
  /\ calls' = calls + 1
  /\ UNCHANGED <<entrants, winners>>

(* GET or POST /admin/generate *)
BGenerate(p) ==
  /\ pc[p] = "idle"
  /\ calls < MaxCalls
  /\ \E requestedMaxPlayers \in RequestedInputs :
       BGenerateRound(p, "generate", requestedMaxPlayers)
  /\ before' = Found(p)

BGenerateFails(p) == FirstCallFails(p, "generate", 500)

(* GET /top50.json: getTodayRound finds the row *)
BTop50(p) ==
  /\ pc[p] = "idle"
  /\ Cardinality(RoundsOf(Today)) = 1
  /\ loc' = [loc EXCEPT ![p] =
               [op |-> "read", status |-> 200,
                body |-> CHOOSE r \in RoundsOf(Today) : TRUE]]
  /\ pc' = [pc EXCEPT ![p] = "done"]
  /\ before' = Found(p)
  /\ UNCHANGED <<rounds, entrants, winners, calls>>

(* getTodayRound returns null: no row, or the store answered with an error; *)
(* found keeps the number of rows the store held at that moment            *)
BTop50Null(p) ==
  /\ pc[p] = "idle"
  /\ calls < MaxCalls
  /\ loc' = [loc EXCEPT ![p] = [op |-> "read",
                                 found |-> Cardinality(RoundsOf(Today))]]
  /\ pc' = [pc EXCEPT ![p] = "b_generate"]
  /\ before' = Found(p)
  /\ UNCHANGED <<rounds, entrants, winners, calls>>

(* ... and the handler generates the round *)
BTop50Generate(p) ==
  /\ pc[p] = "b_generate"
  /\ calls < MaxCalls
  /\ BGenerateRound(p, "read", Undefined)
  /\ UNCHANGED before

BTop50GenerateFails(p) == StoreFails(p, "b_generate")

(* POST /round/today/winner *)
WinnerInputs == {None, Some(<<>>), Some(<<"a">>), Some(<<"x">>)}

(* an update without .eq("round_date", round_date): every row is written *)
BWinnerAllDates(p) ==
  /\ pc[p] = "idle"
  /\ \E winner \in WinnerInputs, winnerSlotRaw \in SlotInputs :
       /\ rounds' = { [r EXCEPT !.status = "complete",
                                !.winner = OrNull(safeStr(winner, 64)),
                                !.winner_slot = winnerSlotRaw,
                                !.winner_set_at = Some("now")] : r \in rounds }
       /\ loc' = [loc EXCEPT ![p] =
                    [op |-> "winner", status |-> 200, winner |-> winner,
                     winnerSlot |-> winnerSlotRaw]]
  /\ pc' = [pc EXCEPT ![p] = "done"]
  /\ before' = Found(p)
  /\ UNCHANGED <<entrants, winners, calls>>

BWinner(p) ==
  /\ pc[p] = "idle"
  /\ \E winner \in WinnerInputs, winnerSlotRaw \in SlotInputs :
       LET winner_slot == winnerSlotRaw
       IN  /\ rounds' = { IF r.round_date = Today
                          THEN [r EXCEPT !.status = "complete",
                                         !.winner = OrNull(safeStr(winner, 64)),
                                         !.winner_slot = winner_slot,
                                         !.winner_set_at = Some("now")]
                          ELSE r : r \in rounds }
           /\ loc' = [loc EXCEPT ![p] =
                        [op |-> "winner", status |-> 200, winner |-> winner,
                         winnerSlot |-> winnerSlotRaw]]
  /\ pc' = [pc EXCEPT ![p] = "done"]
  /\ before' = Found(p)
  /\ UNCHANGED <<entrants, winners, calls>>

BWinnerFails(p) == FirstCallFails(p, "winner", 500)

NextB ==
  \E p \in Procs :
    \/ BGenerate(p)
    \/ BGenerateFails(p)
    \/ BTop50(p)
    \/ BTop50Null(p)
    \/ BTop50Generate(p)
    \/ BTop50GenerateFails(p)
    \/ BWinner(p)
    \/ BWinnerFails(p)
    \/ Return(p)

SpecB == Init /\ [][NextB]_vars

(* The admin generation and the winner route on a store that already      *)
(* holds the round of the day before, completed.                           *)
Yesterday == "d0"

YesterdaysRound ==
  [BTrainingRow(0, None, MIN_PLAYERS) EXCEPT
     !.round_date = Yesterday, !.status = "complete",
     !.winner = Some(<<"#", "1">>), !.winner_slot = Some(1),
     !.winner_set_at = Some("then")]

InitBWin ==
  /\ rounds = {YesterdaysRound}
  /\ entrants = {}
  /\ winners = {}
  /\ pc = [p \in Procs |-> "idle"]
  /\ loc = [p \in Procs |-> Idle]
  /\ calls = 0
  /\ before = None

(* the first generation of the day *)
BGenerateFirst(p) ==
  /\ calls = 0
  /\ BGenerate(p)

NextBWin ==
  \E p \in Procs :
    \/ BGenerateFirst(p)
    \/ BGenerateFails(p)
    \/ BWinner(p)
    \/ BWinnerFails(p)
    \/ Return(p)

SpecBWin == InitBWin /\ [][NextBWin]_vars

(* the calls that can generate a round: the admin route and the read that  *)
(* finds none                                                              *)
NextBDay ==
  \E p \in Procs :
    \/ BGenerate(p)
    \/ BGenerateFails(p)
    \/ BTop50(p)
    \/ BTop50Null(p)
    \/ BTop50Generate(p)
    \/ BTop50GenerateFails(p)
    \/ Return(p)

SpecBDay == Init /\ [][NextBDay]_vars

---------------------------------------------------------------------------
(* generateRound of the same server, called once, on feeds with more       *)
(* comments: user names that differ in case or in surrounding blanks, and  *)
(* more qualifying users than PLAYER_COUNT_MAX.                            *)
MaxRichComments == 4

RichPool ==
  { [id |-> "k1", username |-> Some(<<"a">>),      text |-> <<"I", "N">>],
    [id |-> "k2", username |-> Some(<<"A">>),      text |-> <<"i", "n">>],
    [id |-> "k3", username |-> Some(<<"b">>),      text |-> <<"i", "n">>],
    [id |-> "k4", username |-> Some(<<"c">>),      text |-> <<"i", "n">>],
    [id |-> "k5", username |-> Some(<<"d">>),      text |-> <<"i", "n">>],
    [id |-> "k6", username |-> Some(<<" ", "a">>), text |-> <<"i", "n">>] }

RichCommentSeqs ==
  { s \in SeqsUpTo(RichPool, MaxRichComments) : Cardinality(Range(s)) = Len(s) }

RichFeedOutcomes ==
  { [media |-> "error", comments |-> None],
    [media |-> "none",  comments |-> None],
    [media |-> "post",  comments |-> None] }
  \cup { [media |-> "post", comments |-> Some(cs)] : cs \in RichCommentSeqs }

(* the users behind the comments of a feed answer that qualify: distinct   *)
(* non-blank user names, compared trimmed and without case                 *)
Candidates(feed) ==
  IF feed.comments = None THEN 0
  ELSE Cardinality({ toLowerCase(trim(OrEmpty(c.username))) :
                       c \in { x \in Range(Val(feed.comments)) :
                                 /\ qualifies(x.text)
                                 /\ trim(OrEmpty(x.username)) # <<>> } })

(* the comments of a feed answer that qualify and carry a user name *)
Qualifying(feed) ==
  IF feed.comments = None THEN 0
  ELSE Len(SelectSeq(Val(feed.comments),
                     LAMBDA c : qualifies(c.text) /\ trim(OrEmpty(c.username)) # <<>>))

BGenerateOnce(p) ==
  /\ pc[p] = "idle"
  /\ calls = 0
  /\ \E feed \in RichFeedOutcomes, requestedMaxPlayers \in RequestedInputs :
       \E row \in BRows(1, feed, requestedMaxPlayers) :
         /\ rounds' = upsertRound(row)
         /\ loc' = [loc EXCEPT ![p] =
                      [op |-> "generate", status |-> 200, feed |-> FeedResult(feed),
                       qualifying |-> Qualifying(feed),
                       candidates |-> Candidates(feed),
                       requested |-> requestedMaxPlayers, body |-> row]]
  /\ pc' = [pc EXCEPT ![p] = "done"]
  /\ calls' = 1
  /\ before' = Found(p)
  /\ UNCHANGED <<entrants, winners>>

NextBGen ==
  \E p \in Procs :
    \/ BGenerateOnce(p)
    \/ Return(p)

SpecBGen == Init /\ [][NextBGen]_vars

---------------------------------------------------------------------------
(* ============== SpecP3: src/unnamed/part_003 lines 493-878 ============= *)
(* The same single-row server with a finale size of its own.  Its routes   *)
(* call generateRound() without arguments; buildTrainingPlayers and        *)
(* buildLivePlayersFromComments are those of src/server.js.                *)
FINALE_COUNT_DEFAULT == 2

P3Desired == clampInt(Some(FINALE_COUNT_DEFAULT), MIN_PLAYERS, PLAYER_COUNT_MAX)

(* a row whose finale is the hard cap, whatever was claimed *)
P3RowFullFinale(seed, mode, post, claimed_total, players) ==
  [round_date |-> Today, mode |-> mode, status |-> "pending",
   claimed_total |-> claimed_total,
   finale_count |-> PLAYER_COUNT_MAX,
   seed |-> seed, post |-> post, players |-> players,
   winner |-> None, winner_slot |-> None, winner_set_at |-> None]

P3Row(seed, mode, post, claimed_total, players) ==
  [round_date |-> Today, mode |-> mode, status |-> "pending",
   claimed_total |-> claimed_total,
   finale_count |-> clampInt(Some(Min(FINALE_COUNT_DEFAULT, claimed_total)),
                             MIN_PLAYERS, claimed_total),
   seed |-> seed, post |-> post, players |-> players,
   winner |-> None, winner_slot |-> None, winner_set_at |-> None]

P3TrainingRow(seed, post) ==
  P3Row(seed, "training", post, P3Desired, buildTrainingPlayers(P3Desired))

P3Rows(seed, feed) ==
  IF feed.media # "post" THEN {P3TrainingRow(seed, None)}
  ELSE IF feed.comments = None THEN {P3TrainingRow(seed, Some(ThePost))}
  ELSE { IF Len(livePlayers) >= MIN_PLAYERS
         THEN LET liveCount == clampInt(Some(Len(livePlayers)),
                                        MIN_PLAYERS, PLAYER_COUNT_MAX)
              IN  P3Row(seed, "live", Some(ThePost), liveCount,
                        SubSeq(livePlayers, 1, Min(Len(livePlayers), liveCount)))
         ELSE P3TrainingRow(seed, Some(ThePost)) :
         livePlayers \in
           buildLivePlayersFromComments(Val(feed.comments), PLAYER_COUNT_MAX) }

(* POST /admin/generate: generateRound and its upsertRound *)
P3GenerateOnce(p) ==
  /\ pc[p] = "idle"
  /\ calls = 0
  /\ \E feed \in RichFeedOutcomes :
       \E row \in P3Rows(1, feed) :
         /\ rounds' = upsertRound(row)
         /\ loc' = [loc EXCEPT ![p] =
                      [op |-> "generate", status |-> 200, feed |-> FeedResult(feed),
                       candidates |-> Candidates(feed), body |-> row]]
  /\ pc' = [pc EXCEPT ![p] = "done"]
  /\ calls' = 1
  /\ before' = Found(p)
  /\ UNCHANGED <<entrants, winners>>

P3GenerateFails(p) == FirstCallFails(p, "generate", 500)

NextP3 ==
  \E p \in Procs :
    \/ P3GenerateOnce(p)
    \/ P3GenerateFails(p)
    \/ Return(p)

SpecP3 == Init /\ [][NextP3]_vars

---------------------------------------------------------------------------
(* ====================== SpecP0: src/unnamed/part_000 =================== *)
P0RoundsOf(d) == { r \in rounds : r.round_id = d }

(* keyword filter, then de-dupe by lower-cased username *)
RECURSIVE P0Dedupe(_, _, _)
P0Dedupe(cs, seen, out) ==
  IF cs = <<>> THEN out
  ELSE LET u == toLowerCase(Val(Head(cs).username))
       IN  IF u \in seen THEN P0Dedupe(Tail(cs), seen, out)
           ELSE P0Dedupe(Tail(cs), seen \cup {u}, Append(out, Head(cs)))

P0Entrants(comments) ==
  P0Dedupe(SelectSeq(comments, LAMBDA c : qualifies(c.text)), {}, <<>>)

(* getLatestMedia or getComments throws (request failed, no post to take the *)
(* id of, a qualifying comment without username): nothing in generateRound  *)
(* catches it                                                                *)
P0Throws(feed) ==
  IF feed.media # "post" \/ feed.comments = None THEN TRUE
  ELSE \E i \in DOMAIN Val(feed.comments) :
         /\ qualifies(Val(feed.comments)[i].text)
         /\ Val(feed.comments)[i].username = None

P0Players(feed) ==
  { LET picked == SubSeq(sh, 1, Min(Len(sh), PLAYER_COUNT))
    IN  [i \in 1..Len(picked) |-> [slot |-> i, handle |-> Val(picked[i].username)]] :
    sh \in shuffle(P0Entrants(Val(feed.comments))) }

(* upsert(round, onConflict round_id): the winner columns are not given *)
P0UpsertedRow(old, players) ==
  [round_id |-> Today, media_id |-> ThePost.id, permalink |-> ThePost.permalink,
   players |-> players,
   winner |-> IF old = {} THEN None ELSE (CHOOSE r \in old : TRUE).winner,
   winner_slot |-> IF old = {} THEN None ELSE (CHOOSE r \in old : TRUE).winner_slot,
   winner_set_at |->
     IF old = {} THEN None ELSE (CHOOSE r \in old : TRUE).winner_set_at]

(* POST /admin/generate *)
P0Generate(p) ==
  /\ pc[p] = "idle"
  /\ calls < MaxCalls
  /\ \E feed \in FeedOutcomes :
       /\ ~P0Throws(feed)
       /\ \E players \in P0Players(feed) :
            /\ rounds' = (rounds \ P0RoundsOf(Today)) \cup
                         {P0UpsertedRow(P0RoundsOf(Today), players)}
            /\ loc' = [loc EXCEPT ![p] =
                         [op |-> "generate", status |-> 200, feed |-> FeedResult(feed),
                          body |-> [round_id |-> Today, players |-> players]]]
  /\ pc' = [pc EXCEPT ![p] = "done"]
  /\ calls' = calls + 1
  /\ before' = Found(p)
  /\ UNCHANGED <<entrants, winners>>

(* the upsert comes back with an error, which the handler does not look at *)
P0GenerateUnsaved(p) ==
  /\ pc[p] = "idle"
  /\ calls < MaxCalls
  /\ \E feed \in FeedOutcomes :
       /\ ~P0Throws(feed)
       /\ \E players \in P0Players(feed) :
            loc' = [loc EXCEPT ![p] =
                      [op |-> "generate", status |-> 200, feed |-> FeedResult(feed),
                       body |-> [round_id |-> Today, players |-> players]]]
  /\ pc' = [pc EXCEPT ![p] = "done"]
  /\ calls' = calls + 1
  /\ before' = Found(p)
  /\ UNCHANGED <<rounds, entrants, winners>>

(* the feed call throws: the route answers 500 and nothing is stored *)
P0GenerateThrows(p) ==
  /\ pc[p] = "idle"
  /\ calls < MaxCalls
  /\ \E feed \in FeedOutcomes :
       /\ P0Throws(feed)
       /\ loc' = [loc EXCEPT ![p] =
                    [op |-> "generate", status |-> 500, feed |-> FeedResult(feed)]]
  /\ pc' = [pc EXCEPT ![p] = "failed"]
  /\ calls' = calls + 1
  /\ before' = Found(p)
  /\ UNCHANGED <<rounds, entrants, winners>>

(* GET /top50.json: the row, or null *)
P0Top50(p) ==
  /\ pc[p] = "idle"
  /\ loc' = [loc EXCEPT ![p] = [op |-> "read", status |-> 200, body |-> P0RoundsOf(Today)]]
  /\ pc' = [pc EXCEPT ![p] = "done"]
  /\ before' = Found(p)
  /\ UNCHANGED <<rounds, entrants, winners, calls>>

(* POST /round/today/winner: a field the body does not carry is not written *)
P0Winner(p) ==
  /\ pc[p] = "idle"
  /\ \E winner \in WinnerInputs, winnerSlot \in SlotInputs :
       /\ rounds' = { IF r.round_id = Today
                      THEN [r EXCEPT !.winner = IF winner = None THEN @ ELSE winner,
                                     !.winner_slot =
                                        IF winnerSlot = None THEN @ ELSE winnerSlot,
                                     !.winner_set_at = Some("now")]
                      ELSE r : r \in rounds }
       /\ loc' = [loc EXCEPT ![p] =
                    [op |-> "winner", status |-> 200, winner |-> winner,
                     winnerSlot |-> winnerSlot]]
  /\ pc' = [pc EXCEPT ![p] = "done"]
  /\ before' = Found(p)
  /\ UNCHANGED <<entrants, winners, calls>>

(* the update comes back with an error: the answer is { ok: true } all the same *)
P0WinnerUnsaved(p) ==
  /\ pc[p] = "idle"
  /\ \E winner \in WinnerInputs, winnerSlot \in SlotInputs :
       loc' = [loc EXCEPT ![p] =
                 [op |-> "winner", status |-> 200, winner |-> winner,
                  winnerSlot |-> winnerSlot]]
  /\ pc' = [pc EXCEPT ![p] = "done"]
  /\ before' = Found(p)
  /\ UNCHANGED <<rounds, entrants, winners, calls>>

NextP0 ==
  \E p \in Procs :
    \/ P0Generate(p)
    \/ P0GenerateUnsaved(p)
    \/ P0GenerateThrows(p)
    \/ P0Top50(p)
    \/ P0Winner(p)
    \/ P0WinnerUnsaved(p)
    \/ Return(p)

SpecP0 == Init /\ [][NextP0]_vars

---------------------------------------------------------------------------
(* ============ The comment filter, applied once to one input ============ *)
(* process.env.REQUIRE_KEYWORD: not set, or set to a string *)
KeywordEnv ==
  { None, Some(<<>>), Some(<<"i", "n">>), Some(<<"I", "N">>), Some(<<"n", "o">>) }

CommentTexts ==
  { <<>>, <<"I", "N">>, <<"i", "n">>, <<"n", "o">>, <<"x", "I", "n">>, <<"n", "i">> }

(* src/server.js:36: (process.env.REQUIRE_KEYWORD || "in").toLowerCase() *)
AKeyword(env) ==
  toLowerCase(IF OrEmpty(env) = <<>> THEN <<"i", "n">> ELSE Val(env))

(* src/server.js:527: (process.env.REQUIRE_KEYWORD || "").trim().toLowerCase() *)
BKeyword(env) == toLowerCase(trim(OrEmpty(env)))

(* qualifies() under a given REQUIRE_KEYWORD *)
qualifiesWith(keyword, text) ==
  IF keyword = <<>> THEN TRUE ELSE includes(toLowerCase(text), keyword)

QualifiesOnce(p, server, keyword, env) ==
  /\ pc[p] = "idle"
  /\ \E text \in CommentTexts :
       loc' = [loc EXCEPT ![p] =
                 [op |-> "qualifies", server |-> server, status |-> 200,
                  env |-> env, text |-> text,
                  result |-> qualifiesWith(keyword, text)]]
  /\ pc' = [pc EXCEPT ![p] = "done"]
  /\ UNCHANGED <<rounds, entrants, winners, calls, before>>

AQualifiesOnce(p) ==
  \E env \in KeywordEnv : QualifiesOnce(p, "A", AKeyword(env), env)

BQualifiesOnce(p) ==
  \E env \in KeywordEnv : QualifiesOnce(p, "B", BKeyword(env), env)

NextQual ==
  \E p \in Procs :
    \/ AQualifiesOnce(p)
    \/ BQualifiesOnce(p)
    \/ Return(p)

SpecQual == Init /\ [][NextQual]_vars

---------------------------------------------------------------------------
(* ===== The de-dupe filters and the selector, applied once to one input == *)
MaxFilterComments == 3

MaxCapacity == 3

(* comments with missing, empty and blank user names, with names that      *)
(* differ in case, and one that does not qualify                           *)
FilterPool ==
  { [id |-> "f1", username |-> Some(<<"a">>), text |-> <<"I", "N">>],
    [id |-> "f2", username |-> Some(<<"A">>), text |-> <<"i", "n">>],
    [id |-> "f3", username |-> Some(<<"A">>), text |-> <<"n", "o">>],
    [id |-> "f4", username |-> Some(<<"b">>), text |-> <<"i", "n">>],
    [id |-> "f5", username |-> None,          text |-> <<"i", "n">>],
    [id |-> "f6", username |-> Some(<<>>),    text |-> <<"i", "n">>],
    [id |-> "f7", username |-> Some(<<" ">>), text |-> <<"i", "n">>] }

FilterInputs ==
  { s \in SeqsUpTo(FilterPool, MaxFilterComments) : Cardinality(Range(s)) = Len(s) }

(* a filter or the selector has run: its input and what came out; result   *)
(* None stands for an exception                                            *)
Applied(p, op, server, comments, result) ==
  /\ pc[p] = "idle"
  /\ calls = 0
  /\ loc' = [loc EXCEPT ![p] =
               [op |-> op, server |-> server,
                status |-> IF result = None THEN 500 ELSE 200,
                comments |-> comments, result |-> result]]
  /\ pc' = [pc EXCEPT ![p] = IF result = None THEN "failed" ELSE "done"]
  /\ calls' = 1
  /\ UNCHANGED <<rounds, entrants, winners, before>>

(* src/server.js:181-192: the entrants are { username } *)
AFilterOnce(p) ==
  /\ pc[p] = "idle" /\ calls = 0
  /\ \E cs \in FilterInputs :
    LET out == AUniqueEntrants(cs)
    IN  Applied(p, "filter", "A", cs,
                Some([i \in 1..Len(out) |->
                        [handle |-> OrEmpty(out[i].username), comment_id |-> None]]))

(* src/server.js:651-672 *)
BFilterOnce(p) ==
  /\ pc[p] = "idle" /\ calls = 0
  /\ \E cs \in FilterInputs :
    LET out == BUniq(cs, {}, <<>>)
    IN  Applied(p, "filter", "B", cs,
                Some([i \in 1..Len(out) |->
                        [handle |-> out[i].handle,
                         comment_id |-> Some(out[i].comment_id)]]))

(* src/unnamed/part_000:79-87: c.username.toLowerCase() throws on a        *)
(* comment without username                                                *)
P0FilterOnce(p) ==
  /\ pc[p] = "idle" /\ calls = 0
  /\ \E cs \in FilterInputs :
    Applied(p, "filter", "P0", cs,
            IF \E i \in DOMAIN cs : qualifies(cs[i].text) /\ cs[i].username = None
            THEN None
            ELSE LET out == P0Entrants(cs)
                 IN  Some([i \in 1..Len(out) |->
                             [handle |-> Val(out[i].username),
                              comment_id |-> None]]))

(* src/server.js:651-684: buildLivePlayersFromComments(comments, cap) *)
BSelectOnce(p) ==
  /\ pc[p] = "idle" /\ calls = 0
  /\ \E cs \in FilterInputs, cap \in 0..MaxCapacity :
    \E players \in buildLivePlayersFromComments(cs, cap) :
      Applied(p, "select", "B", cs,
              Some([cap |-> cap, players |-> players]))

NextFilter ==
  \E p \in Procs :
    \/ AFilterOnce(p)
    \/ BFilterOnce(p)
    \/ P0FilterOnce(p)
    \/ BSelectOnce(p)
    \/ Return(p)

SpecFilter == Init /\ [][NextFilter]_vars

(* The leaderboard: GET /leaderboard.json of both servers, applied to the   *)
(* winner column of a table of rounds                                      *)
MaxWinRows == 3

Constructor == <<"c", "o", "n", "s", "t", "r", "u", "c", "t", "o", "r">>

Proto == <<"_", "_", "p", "r", "o", "t", "o", "_", "_">>

(* the winner of a stored round: null, or a name; a name can be one that   *)
(* every object inherits a property for                                    *)
WinnerPool ==
  { None, Some(<<"a">>), Some(<<"A">>), Some(<<"b">>), Some(Constructor), Some(Proto) }

WinnerRows == SeqsUpTo(WinnerPool, MaxWinRows)

(* .not("winner", "is", null) *)
NotNull(rows) == SelectSeq(rows, LAMBDA w : w # None)

(* a value of counts: a number n, or the text of an inherited property     *)
(* followed by n times "1"                                                 *)
Number(n) == [kind |-> "number", n |-> n]

InheritedText(n) == [kind |-> "string", n |-> n]

(* counts[w] = (counts[w] || 0) + 1 on const counts = {}, kept as its own  *)
(* entries in insertion order: an own entry is read back; without one the  *)
(* read of "constructor" gives the inherited function, and "__proto__"     *)
(* reads the prototype and ignores the assignment of a text                *)
PlusOne(counts, w) ==
  IF w = Proto THEN counts
  ELSE IF \E k \in DOMAIN counts : counts[k].handle = w
       THEN [k \in DOMAIN counts |->
               IF counts[k].handle = w
               THEN [counts[k] EXCEPT !.wins.n = @ + 1]
               ELSE counts[k]]
       ELSE Append(counts, [handle |-> w,
                            wins |-> IF w = Constructor THEN InheritedText(1)
                                     ELSE Number(1)])

RECURSIVE Tally(_, _)
Tally(data, counts) ==
  IF data = <<>> THEN counts
  ELSE IF Val(Head(data)) = <<>>
       THEN Tally(Tail(data), counts)
       ELSE Tally(Tail(data), PlusOne(counts, Val(Head(data))))

Orderings(s) == FisherYates(s, Len(s))

(* .sort((a, b) => b[1] - a[1]): stable and descending on numbers; with a  *)
(* text among the values the differences are NaN and the order is whatever *)
(* the engine's sort makes of an inconsistent comparison                   *)
SortedByWins(entries) ==
  IF \A k \in DOMAIN entries : entries[k].wins.kind = "number"
  THEN { s \in Orderings(entries) :
           \A i, j \in DOMAIN s :
             i < j =>
               \/ s[i].wins.n > s[j].wins.n
               \/ /\ s[i].wins.n = s[j].wins.n
                  /\ \E a, b \in DOMAIN entries :
                       a < b /\ entries[a] = s[i] /\ entries[b] = s[j] }
  ELSE Orderings(entries)

leaderboard(rows) == SortedByWins(Tally(NotNull(rows), <<>>))

LeaderboardOnce(p, server) ==
  /\ pc[p] = "idle" /\ calls = 0
  /\ \E rows \in WinnerRows, error \in BOOLEAN :
       \E sorted \in (IF error THEN {<<>>} ELSE leaderboard(rows)) :
         /\ loc' = [loc EXCEPT ![p] =
                      [op |-> "leaderboard", server |-> server,
                       status |-> IF error THEN 500 ELSE 200,
                       rows |-> rows, result |-> sorted]]
         /\ pc' = [pc EXCEPT ![p] = IF error THEN "failed" ELSE "done"]
  /\ calls' = 1
  /\ UNCHANGED <<rounds, entrants, winners, before>>

(* src/server.js:447-471, over winners.username *)
ALeaderboardOnce(p) == LeaderboardOnce(p, "A")

(* src/server.js:887-907, over rounds.winner *)
BLeaderboardOnce(p) == LeaderboardOnce(p, "B")

NextBoard ==
  \E p \in Procs :
    \/ ALeaderboardOnce(p)
    \/ BLeaderboardOnce(p)
    \/ Return(p)

SpecBoard == Init /\ [][NextBoard]_vars

----------------------------------------------------------------------------

(* ========== SpecFeed: generateRound with its feed requests ============= *)
(* generateRound of src/server.js (707-749) and of src/unnamed/part_001     *)
(* (200-262, the same text), a step for each request to the feed.  The two  *)
(* differ in the client: fetchJsonWithTimeout (594-608) aborts a request    *)
(* after 8 s, igFetchJson of part_001 (96-104) waits for the answer.        *)
FeedServers == {"B", "P1"}

HasTimeout(server) == server = "B"

(* the comments all pages of one call may carry together *)
MaxFetched == 2

(* data.paging.next of a page: the url of another page, or none *)
Cursors == {"u1", "u2"}

NextCursors == {None} \cup { Some(u) : u \in Cursors }

(* data.data of one page *)
PageItems == {<<>>} \cup { <<c>> : c \in CommentPool }

Awaiting(server, stage, all, served, failed) ==
  [op |-> "generate", server |-> server, stage |-> stage, url |-> "u0",
   all |-> all, served |-> served, failed |-> failed, feed |-> [media |-> "error", comments |-> None]]

(* the try block is over: feed is what it leaves for the row, comments     *)
(* None after a throw                                                      *)
Fetched(p, feed, failed) ==
  /\ loc' = [loc EXCEPT ![p] = [loc[p] EXCEPT !.feed = feed, !.failed = failed]]
  /\ pc' = [pc EXCEPT ![p] = "f_upsert"]
  /\ UNCHANGED <<rounds, entrants, winners, calls, before>>

(* GET /admin/generate: generateRound calls getLatestMedia *)
FeedGenerate(p) ==
  /\ pc[p] = "idle"
  /\ calls = 0
  /\ \E server \in FeedServers :
       loc' = [loc EXCEPT ![p] = Awaiting(server, "media", <<>>, <<>>, FALSE)]
  /\ pc' = [pc EXCEPT ![p] = "f_media"]
  /\ calls' = 1
  /\ before' = Found(p)
  /\ UNCHANGED <<rounds, entrants, winners>>

(* the media request is answered with a post: getComments asks for the     *)
(* first page                                                              *)
MediaAnswers(p) ==
  /\ pc[p] = "f_media"
  /\ loc' = [loc EXCEPT ![p] = [loc[p] EXCEPT !.stage = "page"]]
  /\ pc' = [pc EXCEPT ![p] = "f_page"]
  /\ UNCHANGED <<rounds, entrants, winners, calls, before>>

(* ... with no post, or with a body that is no JSON (data = {}) *)
MediaEmpty(p) ==
  /\ pc[p] = "f_media"
  /\ Fetched(p, [media |-> "none", comments |-> None], FALSE)

(* ... with an error status or an error object, or the connection fails *)
MediaFails(p) ==
  /\ pc[p] = "f_media"
  /\ Fetched(p, [media |-> "error", comments |-> None], TRUE)

(* a page is answered: all.push(...(data.data || [])), then the page that  *)
(* data.paging.next names, if it names one; nothing counts the pages or    *)
(* remembers the urls already asked for                                    *)
PageAnswers(p) ==
  /\ pc[p] = "f_page"
  /\ \E items \in PageItems, next \in NextCursors :
       /\ Len(loc[p].all) + Len(items) <= MaxFetched
       /\ LET all == loc[p].all \o items
              served == loc[p].served \o items
          IN  IF next # None
              THEN /\ loc' = [loc EXCEPT ![p] =
                                [loc[p] EXCEPT !.all = all, !.served = served,
                                               !.url = Val(next)]]
                   /\ pc' = pc
              ELSE /\ loc' = [loc EXCEPT ![p] =
                                [loc[p] EXCEPT !.all = all, !.served = served,
                                               !.feed = [media |-> "post",
                                                         comments |-> Some(all)]]]
                   /\ pc' = [pc EXCEPT ![p] = "f_upsert"]
  /\ UNCHANGED <<rounds, entrants, winners, calls, before>>

(* a page is answered with an error status or an error object, or the      *)
(* connection fails: the client throws, generateRound catches              *)
PageFails(p) ==
  /\ pc[p] = "f_page"
  /\ Fetched(p, [media |-> "post", comments |-> None], TRUE)

(* a page is answered with status 200 and a body that cannot be read as    *)
(* JSON: res.json().catch(() => ({})) makes it {}, a page without items    *)
(* and without cursor                                                      *)
PageBadBody(p) ==
  /\ pc[p] = "f_page"
  /\ Fetched(p, [media |-> "post", comments |-> Some(loc[p].all)], TRUE)

(* the feed never answers the request *)
RequestSilent(p) ==
  /\ pc[p] \in {"f_media", "f_page"}
  /\ pc' = [pc EXCEPT ![p] = "f_hung"]
  /\ UNCHANGED <<rounds, entrants, winners, loc, calls, before>>

(* setTimeout(() => controller.abort(), timeoutMs): fetch rejects, the     *)
(* client throws, generateRound catches                                    *)
TimeoutFires(p) ==
  /\ pc[p] = "f_hung"
  /\ HasTimeout(loc[p].server)
  /\ Fetched(p, IF loc[p].stage = "media"
                THEN [media |-> "error", comments |-> None]
                ELSE [media |-> "post", comments |-> None], TRUE)

(* the row is built and upserted *)
FeedUpsert(p) ==
  /\ pc[p] = "f_upsert"
  /\ \E row \in BRows(1, loc[p].feed, Undefined) :
       /\ rounds' = upsertRound(row)
       /\ loc' = [loc EXCEPT ![p] =
                    [op |-> "generate", server |-> loc[p].server, status |-> 200,
                     failed |-> loc[p].failed, stage |-> loc[p].stage,
                     served |-> loc[p].served,
                     comments |-> loc[p].feed.comments, body |-> row]]
  /\ pc' = [pc EXCEPT ![p] = "done"]
  /\ UNCHANGED <<entrants, winners, calls, before>>

FeedUpsertFails(p) == StoreFails(p, "f_upsert")

FeedStep(p) ==
  \/ MediaAnswers(p)
  \/ MediaEmpty(p)
  \/ MediaFails(p)
  \/ PageAnswers(p)
  \/ PageFails(p)
  \/ PageBadBody(p)
  \/ RequestSilent(p)
  \/ TimeoutFires(p)
  \/ FeedUpsert(p)
  \/ FeedUpsertFails(p)

NextFeed ==
  \E p \in Procs :
    \/ FeedGenerate(p)
    \/ FeedStep(p)
    \/ Return(p)

SpecFeed == Init /\ [][NextFeed]_vars

(* a handler whose promise has settled, or whose timer is due, runs *)
FairSpecFeed == SpecFeed /\ \A p \in Procs : WF_vars(FeedStep(p))

----------------------------------------------------------------------------

(* ========== SpecShuffle: shuffle and shuffleInPlace, applied once ====== *)
MaxShuffleLen == 3

ShuffleInputs == SeqsUpTo({"x", "y", "z"}, MaxShuffleLen)

ShuffleOnce(p, server) ==
  /\ pc[p] = "idle" /\ calls = 0
  /\ \E arr \in ShuffleInputs :
       \E a \in shuffle(arr) :
         loc' = [loc EXCEPT ![p] =
                   [op |-> "shuffle", server |-> server, status |-> 200,
                    arr |-> arr, result |-> a]]
  /\ pc' = [pc EXCEPT ![p] = "done"]
  /\ calls' = 1
  /\ UNCHANGED <<rounds, entrants, winners, before>>

(* src/server.js:84-90, on the array itself *)
AShuffleOnce(p) == ShuffleOnce(p, "A")

(* src/server.js:570-577, on a copy *)
BShuffleOnce(p) == ShuffleOnce(p, "B")

NextShuffle ==
  \E p \in Procs :
    \/ AShuffleOnce(p)
    \/ BShuffleOnce(p)
    \/ Return(p)

SpecShuffle == Init /\ [][NextShuffle]_vars

----------------------------------------------------------------------------

(* ===== SpecAWin: generation, winner and leaderboard of src/server.js 1-507 *)
(* the rows of a table in an order the store returns them *)
RowsInOrder(table) ==
  { s \in [1..Cardinality(table) -> table] :
      \A i, j \in 1..Cardinality(table) : s[i] = s[j] => i = j }

(* GET /leaderboard.json: select username from winners, then the count *)
ALeaderboard(p) ==
  /\ pc[p] = "idle"
  /\ \E data \in RowsInOrder(winners) :
       \E sorted \in leaderboard([i \in DOMAIN data |-> data[i].username]) :
         loc' = [loc EXCEPT ![p] =
                   [op |-> "leaderboard", status |-> 200, result |-> sorted]]
  /\ pc' = [pc EXCEPT ![p] = "done"]
  /\ before' = Found(p)
  /\ UNCHANGED <<rounds, entrants, winners, calls>>

ALeaderboardFails(p) == FirstCallFails(p, "leaderboard", 500)

NextAWin ==
  \E p \in Procs :
    \/ AGenerate(p)
    \/ AGenerateFails(p)
    \/ ADeleteEntrants(p)
    \/ ADeleteEntrantsFails(p)
    \/ AInsertEntrants(p)
    \/ AInsertEntrantsFails(p)
    \/ AWinnerRejects(p)
    \/ AWinnerRound(p)
    \/ AWinnerRoundFails(p)
    \/ AWinnerEntrant(p)
    \/ AWinnerEntrantFails(p)
    \/ AWinnerUpdate(p)
    \/ AWinnerUpdateFails(p)
    \/ AWinnerHistory(p)
    \/ AWinnerHistoryFails(p)
    \/ ALeaderboard(p)
    \/ ALeaderboardFails(p)
    \/ Return(p)

SpecAWin == Init /\ [][NextAWin]_vars

----------------------------------------------------------------------------

---------------------------------------------------------------------------
(* ============================== Claims ================================= *)
(* A call that has answered *)
Answered(p, op) == pc[p] \in {"done", "failed"} /\ loc[p].op = op

(* The latest call started while no other call was in flight, and none has *)
(* started since: it ran alone, from the store kept in `before`.           *)
RanAlone == before # None

(* the entrants one generation call of SpecA inserted *)
InsertedBy(seed) == { e \in entrants : e.id[1] = seed }

(* C1: a generation that completes after an earlier one stored entrants    *)
(* for the same date leaves exactly its own entrants under the round: as   *)
(* many as its finale_count, all inserted by it, none of the earlier ones. *)
C1_ReplaceOnRegenerate ==
  \A p \in Procs :
    (Answered(p, "generate") /\ pc[p] = "done" /\ RanAlone) =>
      \A r \in RoundsOf(Today) :
        /\ EntrantsOf(r.id) = InsertedBy(loc[p].body.seed)
        /\ Cardinality(EntrantsOf(r.id)) = loc[p].body.finale_count
        /\ EntrantsOf(r.id) \cap Val(before).entrants = {}

C1_Witness ==
  \E p \in Procs :
    /\ Answered(p, "generate") /\ pc[p] = "done" /\ RanAlone
    /\ Val(before).entrants # {}
    /\ \E r \in RoundsOf(Today) : EntrantsOf(r.id) # {}

(* C2: the entrants stored for a round were all inserted by one generation *)
(* call, in every reachable state.                                         *)
C2_OneGenerationVisible ==
  \A r \in RoundsOf(Today) :
    \A e1, e2 \in EntrantsOf(r.id) : e1.id[1] = e2.id[1]

(* C3: a read of the round answers with as many entrants as the row's      *)
(* finale_count says, also while a generation is under way.                *)
C3_ReaderSeesWholeRound ==
  \A p \in Procs :
    (Answered(p, "read") /\ loc[p].status = 200) =>
      Cardinality(loc[p].body.entrants) = loc[p].body.finale_count

(* C4: a generation call that fails on a store operation leaves the round  *)
(* row and the entrants as the call found them.                            *)
C4_FailedGenerationKeepsStore ==
  \A p \in Procs :
    (Answered(p, "generate") /\ pc[p] = "failed" /\ RanAlone) =>
      /\ rounds = Val(before).rounds
      /\ entrants = Val(before).entrants

(* C5: a generation whose feed request failed does not abort: it answers   *)
(* with a round, and the round is a training round.                        *)
C5_IngestionFailureNotFatal ==
  \A p \in Procs :
    (Answered(p, "generate") /\ loc[p].feed = "error") =>
      /\ loc[p].status = 200
      /\ loc[p].body.mode = "training"

(* C6: a stored winner_slot is the slot of one of the round's players. *)
C6_WinnerSlotIsAnEntrant ==
  \A r \in rounds :
    r.winner_slot # None =>
      \E i \in DOMAIN r.players : r.players[i].slot = Val(r.winner_slot)

(* C7: recordWinner for a date without a round does not answer success and *)
(* leaves the store as it was.                                             *)
C7_NoRoundIsRejected ==
  \A p \in Procs :
    (Answered(p, "winner") /\ RanAlone /\ Val(before).rounds = {}) =>
      /\ loc[p].status # 200
      /\ rounds = Val(before).rounds

(* the slot given is the slot of a player of the row *)
SlotOfRow(r, winnerSlot) ==
  /\ winnerSlot # None
  /\ \E i \in DOMAIN r.players : r.players[i].slot = Val(winnerSlot)

(* C8: recordWinner with a slot that no entrant of the stored round has is *)
(* rejected and leaves the row as it was.                                  *)
C8_BadSlotIsRejected ==
  \A p \in Procs :
    (/\ Answered(p, "winner") /\ RanAlone
     /\ \E r \in Val(before).rounds : ~SlotOfRow(r, loc[p].winnerSlot)) =>
      /\ loc[p].status # 200
      /\ rounds = Val(before).rounds

(* C9: after a successful recordWinner(D, s), s a slot of the round, the   *)
(* row has winner_slot = s, status complete and the handle of its entrant  *)
(* at slot s as winner.                                                    *)
C9_WinnerIsTheMatchedEntrant ==
  \A p \in Procs :
    (/\ Answered(p, "winner") /\ loc[p].status = 200 /\ RanAlone
     /\ \E r \in Val(before).rounds : SlotOfRow(r, loc[p].winnerSlot)) =>
      \A r \in RoundsOf(Today) :
        /\ r.winner_slot = loc[p].winnerSlot
        /\ r.status = "complete"
        /\ \E i \in DOMAIN r.players :
             /\ Some(r.players[i].slot) = r.winner_slot
             /\ r.winner = Some(r.players[i].handle)

(* C10: a recordWinner call that fails leaves the winner of the round, its *)
(* status and the winners history as the call found them.                  *)
C10_FailedWinnerKeepsRound ==
  \A p \in Procs :
    (Answered(p, "winner") /\ pc[p] = "failed" /\ RanAlone) =>
      /\ rounds = Val(before).rounds
      /\ winners = Val(before).winners

(* C11: the winner handler writes the winner on the round only while the   *)
(* entrant it validated is still an entrant of the round: a regeneration   *)
(* that replaced the entrants in between keeps the write from happening.   *)
C11_WinnerWrittenOnValidatedSet ==
  [][\A p \in Procs :
       (pc[p] = "w_update" /\ pc'[p] = "w_history") =>
         \E e \in EntrantsOf(loc[p].round.id) : e.id = loc[p].winnerEntrant.id]_vars

(* C12: every committed round has MIN_PLAYERS <= finale_count <= the       *)
(* configured maximum, whatever the feed answered and the caller asked.    *)
C12_FinaleCountInRange ==
  \A r \in rounds :
    MIN_PLAYERS <= r.finale_count /\ r.finale_count <= PLAYER_COUNT_MAX

C12_Witness ==
  \E p \in Procs :
    /\ Answered(p, "generate") /\ pc[p] = "done"
    /\ loc[p].candidates > PLAYER_COUNT_MAX
    /\ loc[p].requested = [num |-> Some(PLAYER_COUNT_MAX + 1)]
    /\ loc[p].body \in rounds
    /\ loc[p].body.mode = "live"

(* C13: every committed round stores as many entrants as its finale_count  *)
(* says, in live and in training mode.                                     *)
C13_RosterLengthIsFinaleCount ==
  \A r \in rounds : Len(r.players) = r.finale_count

C15_ClaimedTotalBeforeCap ==
  \A p \in Procs :
    (Answered(p, "generate") /\ pc[p] = "done" /\ loc[p].body.mode = "live") =>
      loc[p].body.claimed_total = loc[p].candidates

C17_TrainingHasNoPost ==
  \A r \in rounds : r.mode = "training" => r.post = None

(* C18: a round committed in training mode has claimed_total equal to      *)
(* finale_count and exactly finale_count entrants, the one at slot i with  *)
(* the handle "#i".                                                        *)
C18_TrainingEntrantsAreNumbered ==
  \A p \in Procs :
    (/\ Answered(p, "generate") /\ pc[p] = "done" /\ RanAlone
     /\ loc[p].body.mode = "training") =>
      /\ loc[p].body.claimed_total = loc[p].body.finale_count
      /\ \A r \in RoundsOf(Today) :
           /\ { e.entrant_number : e \in EntrantsOf(r.id) } = 1..r.finale_count
           /\ Cardinality(EntrantsOf(r.id)) = r.finale_count
           /\ \A e \in EntrantsOf(r.id) :
                e.username = Some(<<"#">> \o Decimal(e.entrant_number))

(* C19: a generation commits mode live exactly when the feed gave a post,  *)
(* the comments were retrieved and at least MIN_PLAYERS unique users       *)
(* qualify; in every other case it commits mode training.                  *)
C19_LiveIffEnoughCandidates ==
  \A p \in Procs :
    (Answered(p, "generate") /\ pc[p] = "done") =>
      /\ loc[p].body.mode \in {"live", "training"}
      /\ loc[p].body.mode = "live" <=>
           (loc[p].feed = "ok" /\ loc[p].candidates >= MIN_PLAYERS)

C19_Witness ==
  \E p \in Procs :
    /\ Answered(p, "generate") /\ pc[p] = "done"
    /\ loc[p].feed = "ok"
    /\ loc[p].qualifying >= MIN_PLAYERS
    /\ loc[p].candidates < MIN_PLAYERS
    /\ loc[p].body \in rounds
    /\ loc[p].body.mode = "training"

(* C20: a generation that falls back to training commits a round whose     *)
(* finale_count is the configured default size of a training roster; this  *)
(* server takes PLAYER_COUNT_MAX for it when the request names no size.    *)
C20_TrainingSizeIsTheDefault ==
  \A p \in Procs :
    (/\ Answered(p, "generate") /\ pc[p] = "done"
     /\ loc[p].body.mode = "training") =>
      loc[p].body.finale_count = PLAYER_COUNT_MAX

(* C21: a comment qualifies exactly when its text contains the configured  *)
(* keyword, compared without case; with no keyword configured (not set or  *)
(* empty) every comment qualifies.                                         *)
C21_QualifiesByKeyword ==
  \A p \in Procs :
    (Answered(p, "qualifies") /\ pc[p] = "done") =>
      loc[p].result =
        (IF OrEmpty(loc[p].env) = <<>> THEN TRUE
         ELSE includes(toLowerCase(loc[p].text), toLowerCase(Val(loc[p].env))))

(* C22: a comment whose handle is missing, empty or blank is discarded by  *)
(* the filter: the filter does not fail on it and no candidate that comes  *)
(* out has a blank handle.                                                 *)
C22_BlankHandlesDiscarded ==
  \A p \in Procs :
    Answered(p, "filter") =>
      /\ loc[p].status = 200
      /\ \A i \in DOMAIN Val(loc[p].result) :
           trim(Val(loc[p].result)[i].handle) # <<>>

(* a comment the filter may keep: it qualifies and has a non-blank handle *)
Keepable(c) == qualifies(c.text) /\ trim(OrEmpty(c.username)) # <<>>

HandleKey(c) == toLowerCase(trim(OrEmpty(c.username)))

(* the positions of the earliest keepable comment of each handle *)
FirstSeen(cs) ==
  { i \in DOMAIN cs :
      /\ Keepable(cs[i])
      /\ \A j \in 1..(i - 1) :
           Keepable(cs[j]) => HandleKey(cs[j]) # HandleKey(cs[i]) }

(* C23: the filter keeps, for each handle compared without case, exactly   *)
(* the earliest qualifying comment, with its casing and its comment id,    *)
(* and keeps these in the order of the input.                              *)
C23_FirstSeenWins ==
  \A p \in Procs :
    (Answered(p, "filter") /\ loc[p].server = "B") =>
      LET cs == loc[p].comments
          out == Val(loc[p].result)
      IN  /\ loc[p].status = 200
          /\ Len(out) = Cardinality(FirstSeen(cs))
          /\ \A i \in FirstSeen(cs) :
               LET k == Cardinality({ j \in FirstSeen(cs) : j <= i })
               IN  /\ out[k].handle = trim(OrEmpty(cs[i].username))
                   /\ out[k].comment_id = Some(cs[i].id)

C23_Witness ==
  \E p \in Procs :
    /\ Answered(p, "filter") /\ loc[p].server = "B"
    /\ \E i, j, k \in DOMAIN loc[p].comments :
         /\ i < j /\ j < k
         /\ ~qualifies(loc[p].comments[i].text)
         /\ Keepable(loc[p].comments[j]) /\ Keepable(loc[p].comments[k])
         /\ HandleKey(loc[p].comments[i]) = HandleKey(loc[p].comments[j])
         /\ HandleKey(loc[p].comments[j]) = HandleKey(loc[p].comments[k])
         /\ loc[p].comments[j].username # loc[p].comments[k].username
    /\ Len(Val(loc[p].result)) = 1

(* C24: for n candidates after de-duplication and capacity c the selector   *)
(* returns exactly min(c, n) entrants, numbered 1..min(c, n) in the order   *)
(* they are returned, with distinct handles that all belong to the          *)
(* candidates.                                                              *)
C24_CapacityTruncation ==
  \A p \in Procs :
    Answered(p, "select") =>
      LET cs == loc[p].comments
          sel == Val(loc[p].result)
          handles == { trim(OrEmpty(cs[i].username)) : i \in FirstSeen(cs) }
          n == Cardinality(FirstSeen(cs))
      IN  /\ Len(sel.players) = Min(sel.cap, n)
          /\ \A i \in DOMAIN sel.players :
               /\ sel.players[i].slot = i
               /\ sel.players[i].handle \in handles
          /\ \A i, j \in DOMAIN sel.players :
               sel.players[i].handle = sel.players[j].handle => i = j

(* the capacity cuts a longer candidate list, and the one kept is not the  *)
(* first candidate of the input                                            *)
C24_Witness ==
  \E p \in Procs :
    /\ Answered(p, "select")
    /\ Cardinality(FirstSeen(loc[p].comments)) = 2
    /\ Val(loc[p].result).cap = 1
    /\ Len(Val(loc[p].result).players) = 1
    /\ \E i \in FirstSeen(loc[p].comments) :
         /\ \E j \in FirstSeen(loc[p].comments) : j < i
         /\ Val(loc[p].result).players[1].handle
              = trim(OrEmpty(loc[p].comments[i].username))

(* the rounds with a winner, and what the leaderboard must say of a handle *)
WonBy(rows, h) == { i \in DOMAIN rows : rows[i] = Some(h) }

(* C25: the leaderboard has exactly one entry for each distinct winner     *)
(* handle (compared exactly) among the rounds with a winner, its count is  *)
(* the number of those rounds, and the counts never increase down the      *)
(* list.                                                                   *)
C25_LeaderboardCounts ==
  \A p \in Procs :
    (Answered(p, "leaderboard") /\ loc[p].status = 200) =>
      LET rows == loc[p].rows
          out == loc[p].result
          handles == { Val(rows[i]) : i \in { k \in DOMAIN rows : rows[k] # None } }
      IN  /\ Len(out) = Cardinality(handles)
          /\ \A h \in handles :
               \E k \in DOMAIN out :
                 /\ out[k].handle = h
                 /\ out[k].wins = Number(Cardinality(WonBy(rows, h)))
          /\ \A i, j \in DOMAIN out :
               i < j => out[i].wins.n >= out[j].wins.n

(* a requested capacity that is not a number, or lies outside              *)
(* MIN_PLAYERS..PLAYER_COUNT_MAX                                           *)
OutOfRange(requested) ==
  IF requested = Undefined THEN FALSE
  ELSE IF requested.num = None THEN TRUE
  ELSE Val(requested.num) < MIN_PLAYERS \/ Val(requested.num) > PLAYER_COUNT_MAX

(* C26: a generation whose requested capacity is out of range or not a     *)
(* number is rejected: the caller gets an error and no round is committed. *)
C26_OutOfRangeCapacityRejected ==
  \A p \in Procs :
    (Answered(p, "generate") /\ OutOfRange(loc[p].requested)) =>
      /\ loc[p].status # 200
      /\ rounds = {}

(* C27: once two calls that record a winner for the round of the day have  *)
(* both succeeded, the winner stored on the round and the winner in the    *)
(* history are those of one and the same call, the one that wrote last,    *)
(* and the history holds one entry for the round.                          *)
C27_LastCallerWins ==
  \A p, q \in Procs :
    (p # q /\ Answered(p, "winner") /\ Answered(q, "winner")
       /\ loc[p].status = 200 /\ loc[q].status = 200) =>
      \A r \in RoundsOf(Today) :
        /\ Cardinality({ w \in winners : w.round_id = r.id }) = 1
        /\ \A w \in winners :
             w.round_id = r.id => r.winner_entrant_id = Some(w.entrant_id)

(* C28: whatever generation calls ran and however they interleaved, asked  *)
(* for by the admin or made by a read that found no round, the store holds *)
(* at most one round row for a date.                                       *)
C28_OneRowPerDate ==
  \A r1, r2 \in rounds : r1.round_date = r2.round_date => r1 = r2

(* two readers found no round and both generated one, after an admin call  *)
C28_Witness ==
  /\ rounds # {}
  /\ calls >= 2
  /\ \E p, q \in Procs :
       /\ p # q
       /\ Answered(p, "read") /\ Answered(q, "read")
       /\ pc[p] = "done" /\ pc[q] = "done"
       /\ loc[p].body # loc[q].body

(* C29: every generation call that has started is answered in the end,     *)
(* with a committed round or a persistence error, whatever the feed does.  *)
C29_GenerationCompletes ==
  \A p \in Procs :
    (pc[p] \in {"f_media", "f_page", "f_hung", "f_upsert"})
      ~> (pc[p] \in {"done", "failed"})

(* C30: the comments a generation uses are the items of all pages in the   *)
(* order the pages came; when a request for a page failed the call uses no *)
(* comments at all, so no live round is built from the pages read so far.  *)
C30_AllPagesOrNone ==
  \A p \in Procs :
    (Answered(p, "generate") /\ loc[p].status = 200 /\ loc[p].stage = "page") =>
      IF loc[p].failed
      THEN loc[p].body.mode # "live"
      ELSE loc[p].comments = Some(loc[p].served)

(* the rearrangements of a sequence: its elements taken in the order of a  *)
(* one-to-one map of its positions                                         *)
Rearrangements(arr) ==
  { [i \in 1..Len(arr) |-> arr[f[i]]] :
      f \in { g \in [1..Len(arr) -> 1..Len(arr)] :
                \A i, j \in 1..Len(arr) : g[i] = g[j] => i = j } }

(* C31: what the shuffle returns is a rearrangement of its input (same     *)
(* elements as often, same length), and every rearrangement of the input   *)
(* is a result the shuffle can give.                                       *)
C31_ShuffleIsAnyPermutation ==
  \A p \in Procs :
    Answered(p, "shuffle") =>
      /\ loc[p].result \in Rearrangements(loc[p].arr)
      /\ Rearrangements(loc[p].arr) \subseteq shuffle(loc[p].arr)

(* three different elements came back in reverse order *)
C31_Witness ==
  \E p \in Procs :
    /\ Answered(p, "shuffle")
    /\ loc[p].arr = <<"x", "y", "z">>
    /\ loc[p].result = <<"z", "y", "x">>

(* the rows generateRound can commit for the seed, the comments and the    *)
(* request of the call that process p has finished                         *)
SameRun(p) ==
  BRows(loc[p].body.seed, [media |-> "post", comments |-> loc[p].comments], Undefined)

C33_FinaleWithinClaimed ==
  \A r \in rounds :
    r.finale_count <= r.claimed_total /\ r.finale_count >= 2

(* a live round that claims more players than its finale takes *)
C33_Witness ==
  \E r \in rounds :
    /\ r.mode = "live"
    /\ r.claimed_total > FINALE_COUNT_DEFAULT
    /\ r.finale_count = FINALE_COUNT_DEFAULT

(* C34: a read of the current round leaves a round that is already stored  *)
(* for the date as it is, also when the read of the store fails: the read  *)
(* generates only when there is no round.                                  *)
C34_ReadKeepsStoredRound ==
  \A p \in Procs :
    (Answered(p, "read") /\ RanAlone /\ Val(before).rounds # {}) =>
      rounds = Val(before).rounds

(* C35: when two reads both find no round stored for the date and run at   *)
(* the same time, both callers get the same round, and that round is the   *)
(* one the store keeps.  Stated for the step in which the second of them   *)
(* answers: q found no row and is about to answer, p has answered with the *)
(* first round ever generated, which it generated itself.                  *)
C35_ConcurrentFirstReadsAgree ==
  [][\A p, q \in Procs :
       (/\ p # q
        /\ pc[q] = "b_generate" /\ loc[q].found = 0 /\ pc'[q] = "done"
        /\ pc[p] = "done" /\ loc[p].op = "read" /\ loc[p].status = 200
        /\ "feed" \in DOMAIN loc[p]
        /\ loc[p].body.seed = 1)
       => /\ loc'[q].body = loc[p].body
          /\ rounds' = {loc[p].body}]_vars

(* C36: a generation that succeeded leaves the round of the date pending   *)
(* and without winner: no winner on the row and no entry for the round in  *)
(* the winner history.                                                     *)
C36_GenerationClearsWinner ==
  \A p \in Procs :
    (Answered(p, "generate") /\ pc[p] = "done" /\ RanAlone) =>
      \A r \in RoundsOf(Today) :
        /\ r.status = "pending"
        /\ r.winner_entrant_id = None
        /\ \A w \in winners : w.round_id # r.id

(* C37: in every state a round is complete exactly when a winner is        *)
(* recorded on it, handle and slot both: never complete without winner,    *)
(* never pending with one.                                                 *)
C37_CompleteIffWinner ==
  \A r \in rounds :
    (r.status = "complete") <=> (r.winner # None /\ r.winner_slot # None)

(* the handle the stored round r has as its winner: the user name of the   *)
(* entrant of r that the row names, if there is one                        *)
WinnerOf(r) ==
  { Val(e.username) :
      e \in { x \in EntrantsOf(r.id) :
                r.winner_entrant_id = Some(x.id) /\ x.username # None } }

RoundsWonBy(h) == { r \in rounds : h \in WinnerOf(r) }

(* C38: the leaderboard counts for each handle exactly the stored rounds   *)
(* that have this handle as their winner now; the winner of a generation   *)
(* that was replaced since is not counted.                                 *)
C38_LeaderboardOfCurrentRounds ==
  \A p \in Procs :
    (Answered(p, "leaderboard") /\ loc[p].status = 200 /\ RanAlone) =>
      /\ \A k \in DOMAIN loc[p].result :
           /\ RoundsWonBy(loc[p].result[k].handle) # {}
           /\ loc[p].result[k].wins
                = Number(Cardinality(RoundsWonBy(loc[p].result[k].handle)))
      /\ \A r \in rounds :
           \A h \in WinnerOf(r) :
             \E k \in DOMAIN loc[p].result : loc[p].result[k].handle = h

(* what recordWinner has to leave alone on a round *)
Kept(r) ==
  [round_date |-> r.round_date, mode |-> r.mode, seed |-> r.seed,
   claimed_total |-> r.claimed_total, finale_count |-> r.finale_count,
   post |-> r.post, players |-> r.players]

(* C39: recordWinner changes the winner fields and the status of the round *)
(* of its date and nothing else: the round keeps its entrants, mode, seed, *)
(* claimed_total, finale_count and post, and the rounds of other dates are *)
(* as they were.                                                           *)
C39_WinnerTouchesOnlyWinner ==
  \A p \in Procs :
    (Answered(p, "winner") /\ RanAlone) =>
      /\ { Kept(r) : r \in rounds } = { Kept(r) : r \in Val(before).rounds }
      /\ Cardinality(rounds) = Cardinality(Val(before).rounds)
      /\ { r \in rounds : r.round_date # Today }
           = { r \in Val(before).rounds : r.round_date # Today }

(* a winner was written on the round of the day while the store also held  *)
(* the round of the day before                                             *)
C39_Witness ==
  \E p \in Procs :
    /\ Answered(p, "winner") /\ loc[p].status = 200 /\ RanAlone
    /\ YesterdaysRound \in rounds
    /\ \E r \in RoundsOf(Today) : r.status = "complete" /\ r.winner = Some(<<"a">>)
    /\ \E r \in Val(before).rounds : r.round_date = Today /\ r.status = "pending"

====
